---- MODULE Spec2Model ----
(***************************************************************************)
(* lumen-kv storage core: the CRC32-protected write-ahead log (wal.rs)     *)
(* and the engine that couples it with the in-memory memtable (engine.rs). *)
(*                                                                         *)
(* A byte is a number in 0..255, a file / buffer / key / value a sequence  *)
(* of bytes.  A Rust String is its UTF-8 byte sequence (as_bytes is the    *)
(* identity on the representation, from_utf8 validates it).                *)
(***************************************************************************)
EXTENDS Integers, Sequences, FiniteSets, TLC

(***************************************************************************)
(* Bounds of the model.                                                    *)
(***************************************************************************)
MaxOps == 2          \* put/delete calls issued in one behaviour
MaxCrashes == 1      \* process crashes in one behaviour
MaxFails == 1        \* failed writes to the WAL file in one behaviour
MaxReads == 1        \* get/len/is_empty calls issued in one behaviour
MaxCorrupt == 1      \* bytes of the file altered on disk (SpecCorrupt only)
BufCapacity == 22    \* capacity of the BufWriter (8192 in std, scaled down)
MaxRecords == 2      \* records of a log found on disk (SpecCorrupt only)

Threads == {1, 2}

\* "a" and "b"
Keys == {<<97>>, <<98>>}
Values == {<< >>, <<7>>}
\* bytes a corrupted position may take
AltBytes == {0, 1, 2, 98, 200}
\* how many bytes of the buffer a failing flush had written: none, or up to
\* inside the checksum, the key length, the value length, the key, the value
FailOffsets == {0, 3, 9, 17, 21, 22}

(***************************************************************************)
(* Bytes, big-endian integers, CRC32                                       *)
(***************************************************************************)
Byte == 0..255

RECURSIVE Concat(_)
Concat(ss) == IF ss = << >> THEN << >> ELSE Head(ss) \o Concat(Tail(ss))

Take(s, n) == SubSeq(s, 1, n)
Drop(s, n) == SubSeq(s, n + 1, Len(s))

\* u64::to_be_bytes for the lengths the model produces (below 2^31)
U64BE(n) ==
  << 0, 0, 0, 0,
     (n \div 16777216) % 256, (n \div 65536) % 256, (n \div 256) % 256, n % 256 >>

\* the length of the file, standing for any length larger than what is left
TooLong == 1073741824

\* ReadBytesExt::read_u64::<BigEndian>: a value of 2^30 or more is TooLong
\* (no file of the model holds that many bytes)
FromU64BE(b) ==
  IF b[1] # 0 \/ b[2] # 0 \/ b[3] # 0 \/ b[4] # 0 \/ b[5] >= 64
  THEN TooLong
  ELSE b[5] * 16777216 + b[6] * 65536 + b[7] * 256 + b[8]

\* XorTable[a + 1][b + 1] = a xor b, for a and b in 0..15
XorTable ==
  <<
     <<0, 1, 2, 3, 4, 5, 6, 7, 8, 9, 10, 11, 12, 13, 14, 15>>,
     <<1, 0, 3, 2, 5, 4, 7, 6, 9, 8, 11, 10, 13, 12, 15, 14>>,
     <<2, 3, 0, 1, 6, 7, 4, 5, 10, 11, 8, 9, 14, 15, 12, 13>>,
     <<3, 2, 1, 0, 7, 6, 5, 4, 11, 10, 9, 8, 15, 14, 13, 12>>,
     <<4, 5, 6, 7, 0, 1, 2, 3, 12, 13, 14, 15, 8, 9, 10, 11>>,
     <<5, 4, 7, 6, 1, 0, 3, 2, 13, 12, 15, 14, 9, 8, 11, 10>>,
     <<6, 7, 4, 5, 2, 3, 0, 1, 14, 15, 12, 13, 10, 11, 8, 9>>,
     <<7, 6, 5, 4, 3, 2, 1, 0, 15, 14, 13, 12, 11, 10, 9, 8>>,
     <<8, 9, 10, 11, 12, 13, 14, 15, 0, 1, 2, 3, 4, 5, 6, 7>>,
     <<9, 8, 11, 10, 13, 12, 15, 14, 1, 0, 3, 2, 5, 4, 7, 6>>,
     <<10, 11, 8, 9, 14, 15, 12, 13, 2, 3, 0, 1, 6, 7, 4, 5>>,
     <<11, 10, 9, 8, 15, 14, 13, 12, 3, 2, 1, 0, 7, 6, 5, 4>>,
     <<12, 13, 14, 15, 8, 9, 10, 11, 4, 5, 6, 7, 0, 1, 2, 3>>,
     <<13, 12, 15, 14, 9, 8, 11, 10, 5, 4, 7, 6, 1, 0, 3, 2>>,
     <<14, 15, 12, 13, 10, 11, 8, 9, 6, 7, 4, 5, 2, 3, 0, 1>>,
     <<15, 14, 13, 12, 11, 10, 9, 8, 7, 6, 5, 4, 3, 2, 1, 0>>
  >>

\* a xor b for two bytes
XorByte(a, b) ==
  XorTable[(a \div 16) + 1][(b \div 16) + 1] * 16 + XorTable[(a % 16) + 1][(b % 16) + 1]

\* a u32 is the tuple of its four bytes, the most significant first
XorWord(x, y) ==
  << XorByte(x[1], y[1]), XorByte(x[2], y[2]),
     XorByte(x[3], y[3]), XorByte(x[4], y[4]) >>
ShiftRight8(x) == << 0, x[1], x[2], x[3] >>

\* the byte-wise table of CRC-32 (reflected polynomial 0xEDB88320):
\* CrcTable[b + 1] is the u32 that eight shift-and-xor steps make of byte b
CrcTable ==
  <<
     <<0, 0, 0, 0>>, <<119, 7, 48, 150>>, <<238, 14, 97, 44>>, <<153, 9, 81, 186>>,
     <<7, 109, 196, 25>>, <<112, 106, 244, 143>>, <<233, 99, 165, 53>>, <<158, 100, 149, 163>>,
     <<14, 219, 136, 50>>, <<121, 220, 184, 164>>, <<224, 213, 233, 30>>, <<151, 210, 217, 136>>,
     <<9, 182, 76, 43>>, <<126, 177, 124, 189>>, <<231, 184, 45, 7>>, <<144, 191, 29, 145>>,
     <<29, 183, 16, 100>>, <<106, 176, 32, 242>>, <<243, 185, 113, 72>>, <<132, 190, 65, 222>>,
     <<26, 218, 212, 125>>, <<109, 221, 228, 235>>, <<244, 212, 181, 81>>, <<131, 211, 133, 199>>,
     <<19, 108, 152, 86>>, <<100, 107, 168, 192>>, <<253, 98, 249, 122>>, <<138, 101, 201, 236>>,
     <<20, 1, 92, 79>>, <<99, 6, 108, 217>>, <<250, 15, 61, 99>>, <<141, 8, 13, 245>>,
     <<59, 110, 32, 200>>, <<76, 105, 16, 94>>, <<213, 96, 65, 228>>, <<162, 103, 113, 114>>,
     <<60, 3, 228, 209>>, <<75, 4, 212, 71>>, <<210, 13, 133, 253>>, <<165, 10, 181, 107>>,
     <<53, 181, 168, 250>>, <<66, 178, 152, 108>>, <<219, 187, 201, 214>>, <<172, 188, 249, 64>>,
     <<50, 216, 108, 227>>, <<69, 223, 92, 117>>, <<220, 214, 13, 207>>, <<171, 209, 61, 89>>,
     <<38, 217, 48, 172>>, <<81, 222, 0, 58>>, <<200, 215, 81, 128>>, <<191, 208, 97, 22>>,
     <<33, 180, 244, 181>>, <<86, 179, 196, 35>>, <<207, 186, 149, 153>>, <<184, 189, 165, 15>>,
     <<40, 2, 184, 158>>, <<95, 5, 136, 8>>, <<198, 12, 217, 178>>, <<177, 11, 233, 36>>,
     <<47, 111, 124, 135>>, <<88, 104, 76, 17>>, <<193, 97, 29, 171>>, <<182, 102, 45, 61>>,
     <<118, 220, 65, 144>>, <<1, 219, 113, 6>>, <<152, 210, 32, 188>>, <<239, 213, 16, 42>>,
     <<113, 177, 133, 137>>, <<6, 182, 181, 31>>, <<159, 191, 228, 165>>, <<232, 184, 212, 51>>,
     <<120, 7, 201, 162>>, <<15, 0, 249, 52>>, <<150, 9, 168, 142>>, <<225, 14, 152, 24>>,
     <<127, 106, 13, 187>>, <<8, 109, 61, 45>>, <<145, 100, 108, 151>>, <<230, 99, 92, 1>>,
     <<107, 107, 81, 244>>, <<28, 108, 97, 98>>, <<133, 101, 48, 216>>, <<242, 98, 0, 78>>,
     <<108, 6, 149, 237>>, <<27, 1, 165, 123>>, <<130, 8, 244, 193>>, <<245, 15, 196, 87>>,
     <<101, 176, 217, 198>>, <<18, 183, 233, 80>>, <<139, 190, 184, 234>>, <<252, 185, 136, 124>>,
     <<98, 221, 29, 223>>, <<21, 218, 45, 73>>, <<140, 211, 124, 243>>, <<251, 212, 76, 101>>,
     <<77, 178, 97, 88>>, <<58, 181, 81, 206>>, <<163, 188, 0, 116>>, <<212, 187, 48, 226>>,
     <<74, 223, 165, 65>>, <<61, 216, 149, 215>>, <<164, 209, 196, 109>>, <<211, 214, 244, 251>>,
     <<67, 105, 233, 106>>, <<52, 110, 217, 252>>, <<173, 103, 136, 70>>, <<218, 96, 184, 208>>,
     <<68, 4, 45, 115>>, <<51, 3, 29, 229>>, <<170, 10, 76, 95>>, <<221, 13, 124, 201>>,
     <<80, 5, 113, 60>>, <<39, 2, 65, 170>>, <<190, 11, 16, 16>>, <<201, 12, 32, 134>>,
     <<87, 104, 181, 37>>, <<32, 111, 133, 179>>, <<185, 102, 212, 9>>, <<206, 97, 228, 159>>,
     <<94, 222, 249, 14>>, <<41, 217, 201, 152>>, <<176, 208, 152, 34>>, <<199, 215, 168, 180>>,
     <<89, 179, 61, 23>>, <<46, 180, 13, 129>>, <<183, 189, 92, 59>>, <<192, 186, 108, 173>>,
     <<237, 184, 131, 32>>, <<154, 191, 179, 182>>, <<3, 182, 226, 12>>, <<116, 177, 210, 154>>,
     <<234, 213, 71, 57>>, <<157, 210, 119, 175>>, <<4, 219, 38, 21>>, <<115, 220, 22, 131>>,
     <<227, 99, 11, 18>>, <<148, 100, 59, 132>>, <<13, 109, 106, 62>>, <<122, 106, 90, 168>>,
     <<228, 14, 207, 11>>, <<147, 9, 255, 157>>, <<10, 0, 174, 39>>, <<125, 7, 158, 177>>,
     <<240, 15, 147, 68>>, <<135, 8, 163, 210>>, <<30, 1, 242, 104>>, <<105, 6, 194, 254>>,
     <<247, 98, 87, 93>>, <<128, 101, 103, 203>>, <<25, 108, 54, 113>>, <<110, 107, 6, 231>>,
     <<254, 212, 27, 118>>, <<137, 211, 43, 224>>, <<16, 218, 122, 90>>, <<103, 221, 74, 204>>,
     <<249, 185, 223, 111>>, <<142, 190, 239, 249>>, <<23, 183, 190, 67>>, <<96, 176, 142, 213>>,
     <<214, 214, 163, 232>>, <<161, 209, 147, 126>>, <<56, 216, 194, 196>>, <<79, 223, 242, 82>>,
     <<209, 187, 103, 241>>, <<166, 188, 87, 103>>, <<63, 181, 6, 221>>, <<72, 178, 54, 75>>,
     <<216, 13, 43, 218>>, <<175, 10, 27, 76>>, <<54, 3, 74, 246>>, <<65, 4, 122, 96>>,
     <<223, 96, 239, 195>>, <<168, 103, 223, 85>>, <<49, 110, 142, 239>>, <<70, 105, 190, 121>>,
     <<203, 97, 179, 140>>, <<188, 102, 131, 26>>, <<37, 111, 210, 160>>, <<82, 104, 226, 54>>,
     <<204, 12, 119, 149>>, <<187, 11, 71, 3>>, <<34, 2, 22, 185>>, <<85, 5, 38, 47>>,
     <<197, 186, 59, 190>>, <<178, 189, 11, 40>>, <<43, 180, 90, 146>>, <<92, 179, 106, 4>>,
     <<194, 215, 255, 167>>, <<181, 208, 207, 49>>, <<44, 217, 158, 139>>, <<91, 222, 174, 29>>,
     <<155, 100, 194, 176>>, <<236, 99, 242, 38>>, <<117, 106, 163, 156>>, <<2, 109, 147, 10>>,
     <<156, 9, 6, 169>>, <<235, 14, 54, 63>>, <<114, 7, 103, 133>>, <<5, 0, 87, 19>>,
     <<149, 191, 74, 130>>, <<226, 184, 122, 20>>, <<123, 177, 43, 174>>, <<12, 182, 27, 56>>,
     <<146, 210, 142, 155>>, <<229, 213, 190, 13>>, <<124, 220, 239, 183>>, <<11, 219, 223, 33>>,
     <<134, 211, 210, 212>>, <<241, 212, 226, 66>>, <<104, 221, 179, 248>>, <<31, 218, 131, 110>>,
     <<129, 190, 22, 205>>, <<246, 185, 38, 91>>, <<111, 176, 119, 225>>, <<24, 183, 71, 119>>,
     <<136, 8, 90, 230>>, <<255, 15, 106, 112>>, <<102, 6, 59, 202>>, <<17, 1, 11, 92>>,
     <<143, 101, 158, 255>>, <<248, 98, 174, 105>>, <<97, 107, 255, 211>>, <<22, 108, 207, 69>>,
     <<160, 10, 226, 120>>, <<215, 13, 210, 238>>, <<78, 4, 131, 84>>, <<57, 3, 179, 194>>,
     <<167, 103, 38, 97>>, <<208, 96, 22, 247>>, <<73, 105, 71, 77>>, <<62, 110, 119, 219>>,
     <<174, 209, 106, 74>>, <<217, 214, 90, 220>>, <<64, 223, 11, 102>>, <<55, 216, 59, 240>>,
     <<169, 188, 174, 83>>, <<222, 187, 158, 197>>, <<71, 178, 207, 127>>, <<48, 181, 255, 233>>,
     <<189, 189, 242, 28>>, <<202, 186, 194, 138>>, <<83, 179, 147, 48>>, <<36, 180, 163, 166>>,
     <<186, 208, 54, 5>>, <<205, 215, 6, 147>>, <<84, 222, 87, 41>>, <<35, 217, 103, 191>>,
     <<179, 102, 122, 46>>, <<196, 97, 74, 184>>, <<93, 104, 27, 2>>, <<42, 111, 43, 148>>,
     <<180, 11, 190, 55>>, <<195, 12, 142, 161>>, <<90, 5, 223, 27>>, <<45, 2, 239, 141>>
  >>

\* Hasher::update for one byte
CrcUpdate(crc, b) ==
  XorWord(CrcTable[XorByte(crc[4], b) + 1], ShiftRight8(crc))

\* Hasher::update over bytes[lo..hi]: the left half, then the right half from
\* the register the left half leaves (a u32 register is four bytes)
RECURSIVE CrcFold(_, _, _, _)
CrcFold(crc, bytes, lo, hi) ==
  IF lo > hi THEN crc
  ELSE IF lo = hi THEN CrcUpdate(crc, bytes[lo])
  ELSE LET mid == (lo + hi) \div 2
           left == CrcFold(crc, bytes, lo, mid)
       IN CASE Len(left) = 4 -> CrcFold(left, bytes, mid + 1, hi)

\* Hasher::new .. update .. finalize, as the four big-endian bytes of the u32
Crc32(bytes) ==
  XorWord(<< 255, 255, 255, 255 >>,
          CrcFold(<< 255, 255, 255, 255 >>, bytes, 1, Len(bytes)))

(***************************************************************************)
(* wal.rs: records and their on-disk encoding                              *)
(***************************************************************************)
OP_PUT == 1
OP_DELETE == 2

\* enum WalRecord
Put(k, v) == [kind |-> "Put", key |-> k, value |-> v]
Delete(k) == [kind |-> "Delete", key |-> k]
WalRecord == {Put(k, v) : k \in Keys, v \in Values} \cup {Delete(k) : k \in Keys}

\* the match at the head of append: (op, key, value) of a record
OpOf(record) == IF record.kind = "Put" THEN OP_PUT ELSE OP_DELETE
ValueOf(record) == IF record.kind = "Put" THEN record.value ELSE << >>

\* a faulty variant of Checksum: the value bytes are left out of the checksum
ChecksumWithoutValue(op, key_len, value_len, key_bytes, value) ==
  Crc32(<<op>> \o U64BE(key_len) \o U64BE(value_len) \o key_bytes)

\* op || key_len || value_len || key_bytes || value_bytes, the checksummed bytes
Checksum(op, key_len, value_len, key_bytes, value) ==
  Crc32(<<op>> \o U64BE(key_len) \o U64BE(value_len) \o key_bytes \o value)

\* a faulty variant of Chunks: the two length fields are written in the wrong
\* order
ChunksLengthsSwapped(record) ==
  LET op == OpOf(record)
      key_bytes == record.key
      value == ValueOf(record)
      key_len == Len(key_bytes)
      value_len == Len(value)
  IN << <<op>>,
        Crc32(<<op>> \o U64BE(value_len) \o U64BE(key_len) \o key_bytes \o value),
        U64BE(value_len),
        U64BE(key_len),
        key_bytes,
        value >>

\* the six writes of append, in order
Chunks(record) ==
  LET op == OpOf(record)
      key_bytes == record.key
      value == ValueOf(record)
      key_len == Len(key_bytes)
      value_len == Len(value)
  IN << <<op>>,
        Checksum(op, key_len, value_len, key_bytes, value),
        U64BE(key_len),
        U64BE(value_len),
        key_bytes,
        value >>

Encode(record) == Concat(Chunks(record))

RECURSIVE EncodeAll(_)
EncodeAll(records) ==
  IF records = << >> THEN << >>
  ELSE Encode(Head(records)) \o EncodeAll(Tail(records))

(***************************************************************************)
(* String::from_utf8: whether a byte sequence is well-formed UTF-8         *)
(***************************************************************************)
IsCont(b) == b >= 128 /\ b <= 191

RECURSIVE ValidUtf8(_)
ValidUtf8(b) ==
  IF b = << >> THEN TRUE
  ELSE LET c == b[1] n == Len(b) IN
    IF c < 128 THEN ValidUtf8(Drop(b, 1))
    ELSE IF c >= 194 /\ c <= 223
      THEN n >= 2 /\ IsCont(b[2]) /\ ValidUtf8(Drop(b, 2))
    ELSE IF c >= 224 /\ c <= 239
      THEN /\ n >= 3
           /\ IsCont(b[2])
           /\ IsCont(b[3])
           /\ (c = 224 => b[2] >= 160)
           /\ (c = 237 => b[2] <= 159)
           /\ ValidUtf8(Drop(b, 3))
    ELSE IF c >= 240 /\ c <= 244
      THEN /\ n >= 4
           /\ IsCont(b[2])
           /\ IsCont(b[3])
           /\ IsCont(b[4])
           /\ (c = 240 => b[2] >= 144)
           /\ (c = 244 => b[2] <= 143)
           /\ ValidUtf8(Drop(b, 4))
    ELSE FALSE

(***************************************************************************)
(* wal.rs: WriteAheadLog::recover                                          *)
(***************************************************************************)
\* Result<Vec<WalRecord>, WalError>
Ok(records) == [tag |-> "Ok", records |-> records]
IoError == [tag |-> "Io", kind |-> "UnexpectedEof"]
ChecksumMismatch(expected, actual) ==
  [tag |-> "ChecksumMismatch", expected |-> expected, actual |-> actual]
UnknownOperation(op) == [tag |-> "UnknownOperation", op |-> op]
InvalidKey == [tag |-> "InvalidKey"]
\* recover did not return: the thread panicked or the process aborted
Aborted == [tag |-> "Aborted"]
\* recover either did not return or returned Err(Io(UnexpectedEof)),
\* depending on the memory the machine can give
AbortedOrIoError == [tag |-> "AbortedOrIoError"]

\* vec![0u8; len as usize] for the length held in the eight bytes b: 2^48
\* bytes and more are never given (capacity overflow panic from 2^63 up,
\* failed allocation and abort below), 2^32 bytes and more may or may not be,
\* less always is
Alloc(b) ==
  IF b[1] # 0 \/ b[2] # 0 THEN "never"
  ELSE IF b[3] # 0 \/ b[4] # 0 THEN "maybe"
  ELSE "always"

\* a faulty variant of RecoverLoop: running out of bytes anywhere in a record
\* ends the log cleanly, as running out at the op byte does
RECURSIVE RecoverLoopLenient(_, _)
RecoverLoopLenient(bytes, records) ==
  IF bytes = << >> THEN Ok(records)
  ELSE LET op == bytes[1] IN
    IF op # OP_PUT /\ op # OP_DELETE THEN UnknownOperation(op)
    ELSE IF Len(bytes) < 21 THEN Ok(records)
    ELSE LET stored_checksum == SubSeq(bytes, 2, 5)
             key_len == FromU64BE(SubSeq(bytes, 6, 13))
             value_len == FromU64BE(SubSeq(bytes, 14, 21))
         IN
      IF Len(bytes) - 21 < key_len THEN Ok(records)
      ELSE IF Len(bytes) - 21 - key_len < value_len THEN Ok(records)
      ELSE LET key_bytes == SubSeq(bytes, 22, 21 + key_len)
               value == SubSeq(bytes, 22 + key_len, 21 + key_len + value_len)
               computed == Checksum(op, key_len, value_len, key_bytes, value)
           IN
        IF computed # stored_checksum
          THEN ChecksumMismatch(stored_checksum, computed)
        ELSE IF ~ValidUtf8(key_bytes) THEN InvalidKey
        ELSE RecoverLoopLenient(
               Drop(bytes, 21 + key_len + value_len),
               Append(records, IF op = OP_PUT THEN Put(key_bytes, value)
                               ELSE Delete(key_bytes)))

\* a faulty variant of RecoverLoop: an op byte that is not OP_PUT is taken
\* for a Delete
RECURSIVE RecoverLoopDefaultKind(_, _)
RecoverLoopDefaultKind(bytes, records) ==
  IF bytes = << >> THEN Ok(records)
  ELSE LET op == bytes[1] IN
    IF Len(bytes) < 21 THEN IoError
    ELSE LET stored_checksum == SubSeq(bytes, 2, 5)
             key_len == FromU64BE(SubSeq(bytes, 6, 13))
             value_len == FromU64BE(SubSeq(bytes, 14, 21))
         IN
      IF Len(bytes) - 21 < key_len THEN IoError
      ELSE IF Len(bytes) - 21 - key_len < value_len THEN IoError
      ELSE LET key_bytes == SubSeq(bytes, 22, 21 + key_len)
               value == SubSeq(bytes, 22 + key_len, 21 + key_len + value_len)
               computed == Checksum(op, key_len, value_len, key_bytes, value)
           IN
        IF computed # stored_checksum
          THEN ChecksumMismatch(stored_checksum, computed)
        ELSE IF ~ValidUtf8(key_bytes) THEN InvalidKey
        ELSE RecoverLoopDefaultKind(
               Drop(bytes, 21 + key_len + value_len),
               Append(records, IF op = OP_PUT THEN Put(key_bytes, value)
                               ELSE Delete(key_bytes)))

\* the loop of recover over the bytes still unread
RECURSIVE RecoverLoop(_, _)
RecoverLoop(bytes, records) ==
  IF bytes = << >> THEN Ok(records)                       \* EOF at the op byte
  ELSE LET op == bytes[1] IN
    IF op # OP_PUT /\ op # OP_DELETE THEN UnknownOperation(op)
    ELSE IF Len(bytes) < 5 THEN IoError                   \* read_u32
    ELSE IF Len(bytes) < 13 THEN IoError                  \* read_u64
    ELSE IF Len(bytes) < 21 THEN IoError                  \* read_u64
    ELSE LET stored_checksum == SubSeq(bytes, 2, 5)
             key_len == FromU64BE(SubSeq(bytes, 6, 13))
             value_len == FromU64BE(SubSeq(bytes, 14, 21))
             key_alloc == Alloc(SubSeq(bytes, 6, 13))
             value_alloc == Alloc(SubSeq(bytes, 14, 21))
         IN
      IF key_alloc = "never" THEN Aborted                 \* vec![0u8; key_len]
      ELSE IF key_alloc = "maybe" THEN AbortedOrIoError
      ELSE IF Len(bytes) - 21 < key_len THEN IoError      \* read_exact(key)
      ELSE IF value_alloc = "never" THEN Aborted          \* vec![0u8; value_len]
      ELSE IF value_alloc = "maybe" THEN AbortedOrIoError
      ELSE IF Len(bytes) - 21 - key_len < value_len THEN IoError
      ELSE LET key_bytes == SubSeq(bytes, 22, 21 + key_len)
               value == SubSeq(bytes, 22 + key_len, 21 + key_len + value_len)
               computed == Checksum(op, key_len, value_len, key_bytes, value)
           IN
        IF computed # stored_checksum
          THEN ChecksumMismatch(stored_checksum, computed)
        ELSE IF ~ValidUtf8(key_bytes) THEN InvalidKey
        ELSE RecoverLoop(
               Drop(bytes, 21 + key_len + value_len),
               Append(records, IF op = OP_PUT THEN Put(key_bytes, value)
                               ELSE Delete(key_bytes)))

\* recover(path): a missing file is the empty sequence, not an error
recover(exists, bytes) ==
  IF ~exists THEN Ok(<< >>) ELSE RecoverLoop(bytes, << >>)

(***************************************************************************)
(* engine.rs: the memtable (BTreeMap<String, Vec<u8>>) and results         *)
(***************************************************************************)
\* a faulty variant of insert: an existing entry is kept
insert_if_absent(map, key, value) ==
  [k \in (DOMAIN map) \cup {key} |-> IF k \in DOMAIN map THEN map[k] ELSE value]

EmptyMap == << >>
insert(map, key, value) ==
  [k \in (DOMAIN map) \cup {key} |-> IF k = key THEN value ELSE map[k]]
remove(map, key) == [k \in (DOMAIN map) \ {key} |-> map[k]]

\* Option<Vec<u8>>
None == [some |-> FALSE]
Some(v) == [some |-> TRUE, value |-> v]
\* a faulty variant of lookup: an entry with an empty value counts as absent
lookup_nonempty(map, key) ==
  IF key \in DOMAIN map /\ map[key] # << >> THEN Some(map[key]) ELSE None

lookup(map, key) == IF key \in DOMAIN map THEN Some(map[key]) ELSE None

\* service.rs, KvService::get: the reply made from engine.get's Option
GetResponse(maybe_value) ==
  IF maybe_value.some THEN [value |-> maybe_value.value, found |-> TRUE]
  ELSE [value |-> << >>, found |-> FALSE]

\* a faulty variant of Replay: Delete records are skipped
RECURSIVE ReplayWithoutDelete(_, _)
ReplayWithoutDelete(map, records) ==
  IF records = << >> THEN map
  ELSE LET record == Head(records) IN
       ReplayWithoutDelete(
         IF record.kind = "Put" THEN insert(map, record.key, record.value)
         ELSE map,
         Tail(records))

\* the replay loop of Engine::open over the recovered records
RECURSIVE Replay(_, _)
Replay(map, records) ==
  IF records = << >> THEN map
  ELSE LET record == Head(records) IN
       Replay(IF record.kind = "Put" THEN insert(map, record.key, record.value)
              ELSE remove(map, record.key),
              Tail(records))

\* Result<_, EngineError> of a call, and the calls themselves
NoResult == [tag |-> "None"]
OkResult(v) == [tag |-> "Ok", val |-> v]
Unit == "()"
\* EngineError::Wal(e), made by `?` from a WalError
WalErr(e) == [tag |-> "Err", err |-> "Wal", wal |-> e]

\* EngineError::LockPoisoned, made by `?` from a PoisonError
LockPoisoned == [tag |-> "Err", err |-> "LockPoisoned"]
\* the call did not return: its thread panicked
Panicked == [tag |-> "Panicked"]

\* neither lock is poisoned
NotPoisoned == [wal |-> FALSE, mem |-> FALSE]

NoCall == [op |-> "none"]
PutCall(k, v) == [op |-> "put", key |-> k, value |-> v]
DeleteCall(k) == [op |-> "delete", key |-> k]
GetCall(k) == [op |-> "get", key |-> k]
LenCall == [op |-> "len"]
IsEmptyCall == [op |-> "is_empty"]

(***************************************************************************)
(* std::io::BufWriter, as append uses it                                   *)
(***************************************************************************)
\* write_all for each chunk in turn while no chunk needs the file: a chunk is
\* copied into the buffer when it fits the spare capacity; the first chunk
\* that does not fit needs flush_buf first (write_all_cold).  Every chunk of
\* the model is shorter than BufCapacity, so the unbuffered write of
\* write_all_cold never applies.  Returns <<buffer, chunks not yet written>>.
RECURSIVE WriteWhileFits(_, _)
WriteWhileFits(b, chunks) ==
  IF chunks = << >> THEN << b, << >> >>
  ELSE IF Len(Head(chunks)) <= BufCapacity - Len(b)
    THEN WriteWhileFits(b \o Head(chunks), Tail(chunks))
  ELSE << b, chunks >>

(***************************************************************************)
(* State                                                                   *)
(***************************************************************************)
VARIABLES
  status,    \* "closed" (no engine: before open, after a crash) or "open"
  opened,    \* the result of the last Engine::open: NoResult, Ok or a WalError
  exists,    \* whether data_dir/wal.log exists
  file,      \* the bytes of wal.log the operating system holds
  buf,       \* WriteAheadLog.writer: the bytes buffered in the BufWriter
  pending,   \* the writes of the append in progress that are still to do
  memtable,  \* Engine.memtable
  walLock,   \* the holder of Engine.wal's mutex, 0 when free
  pc,        \* where each caller is: "idle", "wal" (in append), "mem"
  call,      \* each caller's current or last call
  res,       \* what each caller's last call returned
  walLog,    \* history: the records handed to append, in order, with the caller
  acked,     \* history: the indices of walLog whose call returned Ok
  ops,       \* put/delete calls issued
  reads,     \* get/len/is_empty calls issued
  crashes,   \* crashes so far
  fails,     \* failed file writes so far
  corrupts,  \* bytes altered on disk so far
  poisoned   \* which of Engine.wal (Mutex) and Engine.memtable (RwLock) is poisoned

vars == << status, opened, exists, file, buf, pending, memtable, walLock, pc,
           call, res, walLog, acked, ops, reads, crashes, fails, corrupts,
           poisoned >>

Init ==
  /\ status = "closed"
  /\ opened = NoResult
  /\ exists = FALSE
  /\ file = << >>
  /\ buf = << >>
  /\ pending = << >>
  /\ memtable = EmptyMap
  /\ walLock = 0
  /\ pc = [t \in Threads |-> "idle"]
  /\ call = [t \in Threads |-> NoCall]
  /\ res = [t \in Threads |-> NoResult]
  /\ walLog = << >>
  /\ acked = {}
  /\ ops = 0
  /\ reads = 0
  /\ crashes = 0
  /\ fails = 0
  /\ corrupts = 0
  /\ poisoned = NotPoisoned

(***************************************************************************)
(* engine.rs: Engine::open                                                 *)
(***************************************************************************)
\* what a call of recover can come to
Outcomes(result) ==
  IF result = AbortedOrIoError THEN {Aborted, IoError} ELSE {result}

\* a faulty variant of open: the log is opened with its content cut off
open_truncating ==
  /\ status = "closed"
  /\ \E records \in Outcomes(recover(exists, file)) :
       IF records.tag = "Ok"
       THEN /\ memtable' = Replay(EmptyMap, records.records)
            /\ exists' = TRUE
            /\ status' = "open"
            /\ opened' = records
            /\ file' = << >>
       ELSE /\ opened' = records
            /\ UNCHANGED << memtable, exists, status, file >>
  /\ UNCHANGED << buf, pending, walLock, pc, call, res, walLog, acked,
                  ops, reads, crashes, fails, corrupts,
                  poisoned >>

\* recover the log, replay it into a fresh map, open the log for appending
\* (OpenOptions create + append: the file is created if absent, its content
\* kept).  A recovery error is returned and no engine is made; nor is one
\* made when recover does not return.
open ==
  /\ status = "closed"
  /\ \E records \in Outcomes(recover(exists, file)) :
       IF records.tag = "Ok"
       THEN /\ memtable' = Replay(EmptyMap, records.records)
            /\ exists' = TRUE
            /\ status' = "open"
            /\ opened' = records
       ELSE /\ opened' = records
            /\ UNCHANGED << memtable, exists, status >>
  /\ UNCHANGED << file, buf, pending, walLock, pc, call, res, walLog, acked,
                  ops, reads, crashes, fails, corrupts,
                  poisoned >>

(***************************************************************************)
(* engine.rs: Engine::put / Engine::delete, wal.rs: WriteAheadLog::append  *)
(***************************************************************************)
\* the record a mutating call appends
RecordOf(c) == IF c.op = "put" THEN Put(c.key, c.value) ELSE Delete(c.key)

\* a faulty variant of BeginAppend: the memtable is changed first, before the
\* record is written
BeginAppendMemtableFirst(t, c) ==
  /\ status = "open"
  /\ pc[t] = "idle"
  /\ walLock = 0
  /\ ~poisoned.wal
  /\ ops < MaxOps
  /\ memtable' = IF c.op = "put" THEN insert(memtable, c.key, c.value)
                 ELSE remove(memtable, c.key)
  /\ LET w == WriteWhileFits(buf, Chunks(RecordOf(c))) IN
       /\ buf' = w[1]
       /\ pending' = w[2]
  /\ walLock' = t
  /\ pc' = [pc EXCEPT ![t] = "wal"]
  /\ call' = [call EXCEPT ![t] = c]
  /\ res' = [res EXCEPT ![t] = NoResult]
  /\ walLog' = Append(walLog, [t |-> t, record |-> RecordOf(c)])
  /\ ops' = ops + 1
  /\ UNCHANGED << status, opened, exists, file, acked, reads, crashes, fails,
                  corrupts, poisoned >>

\* a faulty variant of BeginAppend: append without taking the WAL mutex
BeginAppendUnlocked(t, c) ==
  /\ status = "open"
  /\ pc[t] = "idle"
  /\ ops < MaxOps
  /\ LET w == WriteWhileFits(buf, Chunks(RecordOf(c))) IN
       /\ buf' = w[1]
       /\ pending' = pending \o w[2]
  /\ walLock' = t
  /\ pc' = [pc EXCEPT ![t] = "wal"]
  /\ call' = [call EXCEPT ![t] = c]
  /\ res' = [res EXCEPT ![t] = NoResult]
  /\ walLog' = Append(walLog, [t |-> t, record |-> RecordOf(c)])
  /\ ops' = ops + 1
  /\ UNCHANGED << status, opened, exists, file, memtable, acked, reads,
                  crashes, fails, corrupts, poisoned >>

\* wal.lock() and the writes of append up to the first that needs the file
BeginAppend(t, c) ==
  /\ status = "open"
  /\ pc[t] = "idle"
  /\ walLock = 0
  /\ ~poisoned.wal
  /\ ops < MaxOps
  /\ LET w == WriteWhileFits(buf, Chunks(RecordOf(c))) IN
       /\ buf' = w[1]
       /\ pending' = w[2]
  /\ walLock' = t
  /\ pc' = [pc EXCEPT ![t] = "wal"]
  /\ call' = [call EXCEPT ![t] = c]
  /\ res' = [res EXCEPT ![t] = NoResult]
  /\ walLog' = Append(walLog, [t |-> t, record |-> RecordOf(c)])
  /\ ops' = ops + 1
  /\ UNCHANGED << status, opened, exists, file, memtable, acked, reads,
                  crashes, fails, corrupts,
                  poisoned >>

put(t, key, value) == BeginAppend(t, PutCall(key, value))

delete(t, key) == BeginAppend(t, DeleteCall(key))

\* a faulty variant of flush_ok: the WAL guard is not dropped when append
\* returns, the caller goes on to the memtable with the WAL mutex held
flush_ok_keeping_guard(t) ==
  /\ pc[t] = "wal"
  /\ file' = file \o buf
  /\ LET w == WriteWhileFits(<< >>, pending) IN
       /\ buf' = w[1]
       /\ pending' = w[2]
       /\ IF w[1] = << >> /\ w[2] = << >>
          THEN /\ pc' = [pc EXCEPT ![t] = "mem"]
               /\ UNCHANGED walLock
          ELSE UNCHANGED << walLock, pc >>
  /\ UNCHANGED << status, opened, exists, memtable, call, res, walLog, acked,
                  ops, reads, crashes, fails, corrupts,
                  poisoned >>

\* flush_buf writes the whole buffer to the file (in one write(2) or several).
\* The writes still pending go on, and when none is left and flush() is done
\* append returns Ok, the WAL guard is dropped and the caller goes on to the
\* memtable.
flush_ok(t) ==
  /\ pc[t] = "wal"
  /\ file' = file \o buf
  /\ LET w == WriteWhileFits(<< >>, pending) IN
       /\ buf' = w[1]
       /\ pending' = w[2]
       /\ IF w[1] = << >> /\ w[2] = << >>
          THEN /\ walLock' = 0
               /\ pc' = [pc EXCEPT ![t] = "mem"]
          ELSE UNCHANGED << walLock, pc >>
  /\ UNCHANGED << status, opened, exists, memtable, call, res, walLog, acked,
                  ops, reads, crashes, fails, corrupts,
                  poisoned >>

\* a faulty variant of flush_fail: the write error is swallowed and the call
\* goes on to the memtable
flush_fail_swallowed(t, n) ==
  /\ pc[t] = "wal"
  /\ fails < MaxFails
  /\ n \in FailOffsets
  /\ n < Len(buf)
  /\ fails' = fails + 1
  /\ file' = file \o Take(buf, n)
  /\ buf' = Drop(buf, n)
  /\ pending' = << >>
  /\ walLock' = 0
  /\ pc' = [pc EXCEPT ![t] = "mem"]
  /\ UNCHANGED << status, opened, exists, memtable, call, res, walLog, acked,
                  ops, reads, crashes, corrupts,
                  poisoned >>

\* a write(2) fails after n bytes of the buffer reached the file: flush_buf
\* keeps the bytes not yet written in the buffer, append returns
\* Err(WalError::Io) and put/delete return it as EngineError::Wal without
\* touching the memtable
flush_fail(t, n) ==
  /\ pc[t] = "wal"
  /\ fails < MaxFails
  /\ n \in FailOffsets
  /\ n < Len(buf)
  /\ fails' = fails + 1
  /\ file' = file \o Take(buf, n)
  /\ buf' = Drop(buf, n)
  /\ pending' = << >>
  /\ walLock' = 0
  /\ pc' = [pc EXCEPT ![t] = "idle"]
  /\ res' = [res EXCEPT ![t] = WalErr([tag |-> "Io", kind |-> "Other"])]
  /\ UNCHANGED << status, opened, exists, memtable, call, walLog, acked, ops,
                  reads, crashes, corrupts,
                  poisoned >>

\* the index in walLog of the record of t's call in progress
MyRecord(t) ==
  CHOOSE i \in 1..Len(walLog) :
    /\ walLog[i].t = t
    /\ \A j \in (i + 1)..Len(walLog) : walLog[j].t # t

\* memtable.write() and mem.insert(key, value); Ok(())
put_insert(t) ==
  /\ pc[t] = "mem"
  /\ call[t].op = "put"
  /\ ~poisoned.mem
  /\ memtable' = insert(memtable, call[t].key, call[t].value)
  /\ res' = [res EXCEPT ![t] = OkResult(Unit)]
  /\ pc' = [pc EXCEPT ![t] = "idle"]
  /\ acked' = acked \cup {MyRecord(t)}
  /\ UNCHANGED << status, opened, exists, file, buf, pending, walLock, call,
                  walLog, ops, reads, crashes, fails, corrupts,
                  poisoned >>

\* a faulty variant of delete_remove: it answers true whether or not the key
\* was there
delete_remove_true(t) ==
  /\ pc[t] = "mem"
  /\ call[t].op = "delete"
  /\ memtable' = remove(memtable, call[t].key)
  /\ res' = [res EXCEPT ![t] = OkResult(TRUE)]
  /\ pc' = [pc EXCEPT ![t] = "idle"]
  /\ acked' = acked \cup {MyRecord(t)}
  /\ UNCHANGED << status, opened, exists, file, buf, pending, walLock, call,
                  walLog, ops, reads, crashes, fails, corrupts,
                  poisoned >>

\* memtable.write() and Ok(mem.remove(key).is_some())
delete_remove(t) ==
  /\ pc[t] = "mem"
  /\ call[t].op = "delete"
  /\ ~poisoned.mem
  /\ memtable' = remove(memtable, call[t].key)
  /\ res' = [res EXCEPT ![t] = OkResult(call[t].key \in DOMAIN memtable)]
  /\ pc' = [pc EXCEPT ![t] = "idle"]
  /\ acked' = acked \cup {MyRecord(t)}
  /\ UNCHANGED << status, opened, exists, file, buf, pending, walLock, call,
                  walLog, ops, reads, crashes, fails, corrupts,
                  poisoned >>

(***************************************************************************)
(* engine.rs: Engine::get / len / is_empty                                 *)
(***************************************************************************)
Read(t, c, v) ==
  /\ status = "open"
  /\ pc[t] = "idle"
  /\ ~poisoned.mem
  /\ reads < MaxReads
  /\ reads' = reads + 1
  /\ call' = [call EXCEPT ![t] = c]
  /\ res' = [res EXCEPT ![t] = OkResult(v)]
  /\ UNCHANGED << status, opened, exists, file, buf, pending, memtable,
                  walLock, pc, walLog, acked, ops, crashes, fails, corrupts,
                  poisoned >>

\* a faulty variant of get: the answer is taken from the log on disk when it
\* can be read
get_from_wal(t, key) ==
  LET records == recover(exists, file) IN
    Read(t, GetCall(key),
         IF records.tag = "Ok"
         THEN lookup(Replay(EmptyMap, records.records), key)
         ELSE lookup(memtable, key))

get(t, key) == Read(t, GetCall(key), lookup(memtable, key))

len(t) == Read(t, LenCall, Cardinality(DOMAIN memtable))

\* Ok(self.len()? == 0)
is_empty(t) == Read(t, IsEmptyCall, Cardinality(DOMAIN memtable) = 0)

(***************************************************************************)
(* The environment                                                         *)
(***************************************************************************)
\* the process dies: memory (memtable, locks, the BufWriter's buffer, every
\* call in progress) is lost, the file keeps the bytes written to it.  When
\* the crash interrupts a flush, n bytes of the buffer had reached the file.
crash(n) ==
  /\ status = "open"
  /\ crashes < MaxCrashes
  /\ n \in 0..(IF walLock # 0 THEN Len(buf) ELSE 0)
  /\ file' = file \o Take(buf, n)
  /\ crashes' = crashes + 1
  /\ status' = "closed"
  /\ opened' = NoResult
  /\ memtable' = EmptyMap
  /\ buf' = << >>
  /\ pending' = << >>
  /\ walLock' = 0
  /\ pc' = [t \in Threads |-> "idle"]
  /\ call' = [t \in Threads |-> NoCall]
  /\ res' = [t \in Threads |-> NoResult]
  /\ poisoned' = NotPoisoned
  /\ UNCHANGED << exists, walLog, acked, ops, reads, fails, corrupts >>

\* one byte of the file is altered on disk while no engine is open
corrupt(p, b) ==
  /\ status = "closed"
  /\ opened = NoResult
  /\ corrupts < MaxCorrupt
  /\ p \in 1..Len(file)
  /\ b # file[p]
  /\ file' = [file EXCEPT ![p] = b]
  /\ corrupts' = corrupts + 1
  /\ UNCHANGED << status, opened, exists, buf, pending, memtable, walLock, pc,
                  call, res, walLog, acked, ops, reads, crashes, fails,
                  poisoned >>

Next ==
  \/ open
  \/ \E t \in Threads, k \in Keys, v \in Values : put(t, k, v)
  \/ \E t \in Threads, k \in Keys : delete(t, k)
  \/ \E t \in Threads : flush_ok(t)
  \/ \E t \in Threads, n \in FailOffsets : flush_fail(t, n)
  \/ \E t \in Threads : put_insert(t)
  \/ \E t \in Threads : delete_remove(t)
  \/ \E t \in Threads, k \in Keys : get(t, k)
  \/ \E t \in Threads : len(t)
  \/ \E t \in Threads : is_empty(t)
  \/ \E n \in 0..BufCapacity : crash(n)

Spec == Init /\ [][Next]_vars

(***************************************************************************)
(* Abnormal failures: a thread panics while it holds one of the locks,     *)
(* which poisons the lock (std::sync::Mutex / RwLock write guard).         *)
(***************************************************************************)
\* a panic inside append, under the WAL mutex: the guard is dropped while
\* panicking, the mutex is poisoned, the BufWriter keeps what it buffered
panic_wal(t) ==
  /\ pc[t] = "wal"
  /\ poisoned' = [poisoned EXCEPT !.wal = TRUE]
  /\ walLock' = 0
  /\ pending' = << >>
  /\ pc' = [pc EXCEPT ![t] = "idle"]
  /\ res' = [res EXCEPT ![t] = Panicked]
  /\ UNCHANGED << status, opened, exists, file, buf, memtable, call, walLog,
                  acked, ops, reads, crashes, fails, corrupts >>

\* a panic under the memtable write guard, before the map is changed
panic_mem(t) ==
  /\ pc[t] = "mem"
  /\ ~poisoned.mem
  /\ poisoned' = [poisoned EXCEPT !.mem = TRUE]
  /\ pc' = [pc EXCEPT ![t] = "idle"]
  /\ res' = [res EXCEPT ![t] = Panicked]
  /\ UNCHANGED << status, opened, exists, file, buf, pending, memtable,
                  walLock, call, walLog, acked, ops, reads, crashes, fails,
                  corrupts >>

\* put / delete: self.wal.lock()? on a poisoned mutex returns LockPoisoned
wal_lock_poisoned(t, c) ==
  /\ status = "open"
  /\ pc[t] = "idle"
  /\ walLock = 0
  /\ poisoned.wal
  /\ ops < MaxOps
  /\ ops' = ops + 1
  /\ call' = [call EXCEPT ![t] = c]
  /\ res' = [res EXCEPT ![t] = LockPoisoned]
  /\ UNCHANGED << status, opened, exists, file, buf, pending, memtable,
                  walLock, pc, walLog, acked, reads, crashes, fails, corrupts,
                  poisoned >>

\* put / delete after the append: self.memtable.write()? on a poisoned lock
\* returns LockPoisoned
mem_write_poisoned(t) ==
  /\ pc[t] = "mem"
  /\ poisoned.mem
  /\ pc' = [pc EXCEPT ![t] = "idle"]
  /\ res' = [res EXCEPT ![t] = LockPoisoned]
  /\ UNCHANGED << status, opened, exists, file, buf, pending, memtable,
                  walLock, call, walLog, acked, ops, reads, crashes, fails,
                  corrupts, poisoned >>

\* get / len / is_empty: self.memtable.read()? on a poisoned lock returns
\* LockPoisoned
mem_read_poisoned(t, c) ==
  /\ status = "open"
  /\ pc[t] = "idle"
  /\ poisoned.mem
  /\ reads < MaxReads
  /\ reads' = reads + 1
  /\ call' = [call EXCEPT ![t] = c]
  /\ res' = [res EXCEPT ![t] = LockPoisoned]
  /\ UNCHANGED << status, opened, exists, file, buf, pending, memtable,
                  walLock, pc, walLog, acked, ops, crashes, fails, corrupts,
                  poisoned >>

MutatingCalls ==
  {PutCall(k, v) : k \in Keys, v \in Values} \cup {DeleteCall(k) : k \in Keys}

ReadCalls == {GetCall(k) : k \in Keys} \cup {LenCall, IsEmptyCall}

NextPoison ==
  \/ open
  \/ \E t \in Threads, k \in Keys, v \in Values : put(t, k, v)
  \/ \E t \in Threads, k \in Keys : delete(t, k)
  \/ \E t \in Threads : flush_ok(t)
  \/ \E t \in Threads : put_insert(t)
  \/ \E t \in Threads : delete_remove(t)
  \/ \E t \in Threads, k \in Keys : get(t, k)
  \/ \E t \in Threads : len(t)
  \/ \E t \in Threads : is_empty(t)
  \/ \E t \in Threads : panic_wal(t)
  \/ \E t \in Threads : panic_mem(t)
  \/ \E t \in Threads, c \in MutatingCalls : wal_lock_poisoned(t, c)
  \/ \E t \in Threads : mem_write_poisoned(t)
  \/ \E t \in Threads, c \in ReadCalls : mem_read_poisoned(t, c)

SpecPoison == Init /\ [][NextPoison]_vars

(***************************************************************************)
(* The calls of engine.rs lock by lock: a call is entered, waits for the   *)
(* lock it asks for, holds it and drops it.  pc[t] is "lock" while t waits *)
(* for wal.lock(), "wal" while it holds the WAL guard, "mem" while it      *)
(* waits for memtable.write(), "memw" while it holds the write guard, "rd" *)
(* while it waits for memtable.read() and "memr" while it holds a read     *)
(* guard.                                                                  *)
(***************************************************************************)
HoldsWal(t) == walLock = t
HoldsMemWrite(t) == pc[t] = "memw"
HoldsMemRead(t) == pc[t] = "memr"

\* put / delete is entered
enter_mutation(t, c) ==
  /\ status = "open"
  /\ pc[t] = "idle"
  /\ ops < MaxOps
  /\ ops' = ops + 1
  /\ pc' = [pc EXCEPT ![t] = "lock"]
  /\ call' = [call EXCEPT ![t] = c]
  /\ res' = [res EXCEPT ![t] = NoResult]
  /\ UNCHANGED << status, opened, exists, file, buf, pending, memtable,
                  walLock, walLog, acked, reads, crashes, fails, corrupts,
                  poisoned >>

put_enter(t, key, value) == enter_mutation(t, PutCall(key, value))

delete_enter(t, key) == enter_mutation(t, DeleteCall(key))

\* self.wal.lock()? returns the guard once no other caller holds it, and the
\* writes of append go into the buffer up to the first that needs the file
wal_lock(t) ==
  /\ pc[t] = "lock"
  /\ walLock = 0
  /\ ~poisoned.wal
  /\ LET w == WriteWhileFits(buf, Chunks(RecordOf(call[t]))) IN
       /\ buf' = w[1]
       /\ pending' = w[2]
  /\ walLock' = t
  /\ pc' = [pc EXCEPT ![t] = "wal"]
  /\ walLog' = Append(walLog, [t |-> t, record |-> RecordOf(call[t])])
  /\ UNCHANGED << status, opened, exists, file, memtable, call, res, acked,
                  ops, reads, crashes, fails, corrupts, poisoned >>

\* self.memtable.write()? returns the guard once no caller holds a read or
\* write guard
memtable_write(t) ==
  /\ pc[t] = "mem"
  /\ ~poisoned.mem
  /\ \A u \in Threads : ~HoldsMemWrite(u) /\ ~HoldsMemRead(u)
  /\ pc' = [pc EXCEPT ![t] = "memw"]
  /\ UNCHANGED << status, opened, exists, file, buf, pending, memtable,
                  walLock, call, res, walLog, acked, ops, reads, crashes,
                  fails, corrupts, poisoned >>

\* mem.insert(key, value); Ok(()) and the write guard is dropped
put_return(t) ==
  /\ pc[t] = "memw"
  /\ call[t].op = "put"
  /\ memtable' = insert(memtable, call[t].key, call[t].value)
  /\ res' = [res EXCEPT ![t] = OkResult(Unit)]
  /\ pc' = [pc EXCEPT ![t] = "idle"]
  /\ acked' = acked \cup {MyRecord(t)}
  /\ UNCHANGED << status, opened, exists, file, buf, pending, walLock, call,
                  walLog, ops, reads, crashes, fails, corrupts, poisoned >>

\* Ok(mem.remove(key).is_some()) and the write guard is dropped
delete_return(t) ==
  /\ pc[t] = "memw"
  /\ call[t].op = "delete"
  /\ memtable' = remove(memtable, call[t].key)
  /\ res' = [res EXCEPT ![t] = OkResult(call[t].key \in DOMAIN memtable)]
  /\ pc' = [pc EXCEPT ![t] = "idle"]
  /\ acked' = acked \cup {MyRecord(t)}
  /\ UNCHANGED << status, opened, exists, file, buf, pending, walLock, call,
                  walLog, ops, reads, crashes, fails, corrupts, poisoned >>

\* get / len / is_empty is entered
enter_read(t, c) ==
  /\ status = "open"
  /\ pc[t] = "idle"
  /\ reads < MaxReads
  /\ reads' = reads + 1
  /\ pc' = [pc EXCEPT ![t] = "rd"]
  /\ call' = [call EXCEPT ![t] = c]
  /\ res' = [res EXCEPT ![t] = NoResult]
  /\ UNCHANGED << status, opened, exists, file, buf, pending, memtable,
                  walLock, walLog, acked, ops, crashes, fails, corrupts,
                  poisoned >>

\* self.memtable.read()? returns a guard once no caller holds the write guard
\* (a lock that also keeps readers out while a writer waits admits fewer
\* steps, none of them new)
memtable_read(t) ==
  /\ pc[t] = "rd"
  /\ ~poisoned.mem
  /\ \A u \in Threads : ~HoldsMemWrite(u)
  /\ pc' = [pc EXCEPT ![t] = "memr"]
  /\ UNCHANGED << status, opened, exists, file, buf, pending, memtable,
                  walLock, call, res, walLog, acked, ops, reads, crashes,
                  fails, corrupts, poisoned >>

\* the answer is taken from the map and the read guard is dropped
read_return(t) ==
  /\ pc[t] = "memr"
  /\ res' = [res EXCEPT ![t] =
       OkResult(IF call[t].op = "get" THEN lookup(memtable, call[t].key)
                ELSE IF call[t].op = "len" THEN Cardinality(DOMAIN memtable)
                ELSE Cardinality(DOMAIN memtable) = 0)]
  /\ pc' = [pc EXCEPT ![t] = "idle"]
  /\ UNCHANGED << status, opened, exists, file, buf, pending, memtable,
                  walLock, call, walLog, acked, ops, reads, crashes, fails,
                  corrupts, poisoned >>

NextLocks ==
  \/ open
  \/ \E t \in Threads, k \in Keys, v \in Values : put_enter(t, k, v)
  \/ \E t \in Threads, k \in Keys : delete_enter(t, k)
  \/ \E t \in Threads : wal_lock(t)
  \/ \E t \in Threads : flush_ok(t)
  \/ \E t \in Threads, n \in FailOffsets : flush_fail(t, n)
  \/ \E t \in Threads : memtable_write(t)
  \/ \E t \in Threads : put_return(t)
  \/ \E t \in Threads : delete_return(t)
  \/ \E t \in Threads, c \in ReadCalls : enter_read(t, c)
  \/ \E t \in Threads : memtable_read(t)
  \/ \E t \in Threads : read_return(t)

\* the steps caller t takes inside a call once it holds the WAL guard or
\* has dropped it
StepOf(t) ==
  \/ flush_ok(t)
  \/ memtable_write(t)
  \/ put_return(t)
  \/ delete_return(t)
  \/ memtable_read(t)
  \/ read_return(t)

\* when wal_lock(t) can be taken: t waits for the WAL mutex and it is free
\* (the guard of wal_lock; the step always changes pc[t])
wal_lock_enabled(t) == pc[t] = "lock" /\ walLock = 0 /\ ~poisoned.wal

\* fair scheduling: a caller that can take its next step, and stays able to,
\* takes it.  A write to the file ends, with success or with an error.  The
\* first conjunct is WF_vars(wal_lock(t)) with its enabling condition written
\* out.
FairLocks ==
  \A t \in Threads :
    /\ ([]<>(~wal_lock_enabled(t)) \/ []<><<wal_lock(t)>>_vars)
    /\ WF_vars(StepOf(t))

SpecLocks == Init /\ [][NextLocks]_vars /\ FairLocks

(***************************************************************************)
(* A data directory that holds the log of an earlier run, on a disk that   *)
(* may have altered one byte of it, and Engine::open over it.              *)
(***************************************************************************)
\* the logs of at most n records drawn from a set of records
RECURSIVE LogsOf(_, _)
LogsOf(n, recs) ==
  IF n = 0 THEN {<< >>}
  ELSE LET shorter == LogsOf(n - 1, recs)
       IN shorter \cup {Append(l, r) : l \in shorter, r \in recs}

Logs(n) == LogsOf(n, WalRecord)

InitWith(logs) ==
  /\ status = "closed"
  /\ opened = NoResult
  /\ exists = TRUE
  /\ \E l \in logs :
       /\ file = EncodeAll(l)
       /\ walLog = [i \in 1..Len(l) |-> [t |-> 1, record |-> l[i]]]
       /\ acked = 1..Len(l)
       /\ ops = Len(l)
  /\ buf = << >>
  /\ pending = << >>
  /\ memtable = EmptyMap
  /\ walLock = 0
  /\ pc = [t \in Threads |-> "idle"]
  /\ call = [t \in Threads |-> NoCall]
  /\ res = [t \in Threads |-> NoResult]
  /\ reads = 0
  /\ crashes = 0
  /\ fails = 0
  /\ corrupts = 0
  /\ poisoned = NotPoisoned

InitLog == InitWith(Logs(MaxRecords))

NextCorrupt ==
  \/ open
  \/ \E p \in 1..(MaxRecords * (BufCapacity + 2)), b \in AltBytes : corrupt(p, b)

SpecCorrupt == InitLog /\ [][NextCorrupt]_vars

(***************************************************************************)
(* A data directory whose log may come from another writer: well-formed,   *)
(* checksummed records whose key need not be UTF-8 (append itself only     *)
(* ever gets a String).                                                    *)
(***************************************************************************)
\* "a", "b" and the lone byte 0xC8, which is not UTF-8
DiskKeys == Keys \cup {<<200>>}
DiskRecord ==
  {Put(k, v) : k \in DiskKeys, v \in Values} \cup {Delete(k) : k \in DiskKeys}

InitForeign == InitWith(LogsOf(MaxRecords, DiskRecord))

SpecForeign == InitForeign /\ [][NextCorrupt]_vars

(***************************************************************************)
(* Properties                                                              *)
(***************************************************************************)
\* what get(key) answers once a mutating call c has taken effect
Effect(c) == IF c.op = "put" THEN Some(c.value) ELSE None

\* the step in which caller t's put or delete returns Ok
ReturnsOk(t) == pc[t] = "mem" /\ pc'[t] = "idle" /\ res'[t].tag = "Ok"

\* C1: for every put or delete that returned success, a crash right after the
\* return (memtable lost, the file keeps its bytes) is followed by an
\* Engine::open that succeeds and whose replayed memtable shows the mutation.
C1_DurableAtReturn ==
  [][\A t \in Threads :
       ReturnsOk(t) =>
         LET records == recover(exists', file') IN
           /\ records.tag = "Ok"
           /\ lookup(Replay(EmptyMap, records.records), call[t].key) = Effect(call[t])
    ]_vars

\* C2: after a crash at any point, also in the middle of a later append,
\* Engine::open yields an engine that holds every acknowledged write: its
\* record was recovered and the replayed map shows it, unless a later
\* recovered record for the same key superseded it.
C2_AckedSurvivesCrash ==
  (crashes > 0 /\ opened # NoResult) =>
    \A i \in acked :
      /\ opened.tag = "Ok"
      /\ LET records == opened.records
             r == walLog[i].record
         IN \E p \in 1..Len(records) :
              /\ records[p] = r
              /\ \/ lookup(Replay(EmptyMap, records), r.key)
                      = (IF r.kind = "Put" THEN Some(r.value) ELSE None)
                 \/ \E q \in (p + 1)..Len(records) : records[q].key = r.key

\* every call has returned
Quiescent == \A t \in Threads : pc[t] = "idle"

\* C3: under any interleaving of concurrent puts and deletes whose appends
\* all succeed, once every call has returned the memtable is the fold of the
\* WAL records in file order.
C3_MemtableIsFoldOfWal ==
  (status = "open" /\ crashes = 0 /\ fails = 0 /\ Quiescent) =>
    LET records == recover(exists, file) IN
      /\ records.tag = "Ok"
      /\ memtable = Replay(EmptyMap, records.records)

\* a step of caller t inside its append: taking the WAL lock and buffering,
\* a flush, or leaving the append with Ok or Err
AppendStep(t) ==
  /\ status = "open"
  /\ status' = "open"
  /\ \/ pc[t] = "idle" /\ pc'[t] = "wal"
     \/ pc[t] = "wal" /\ (pc'[t] # "wal" \/ file' # file)

\* C4: if the WAL append fails inside put or delete, the call returns that
\* error as EngineError::Wal, it is not retried, and no step of the failing
\* call (indeed no step of any append) changes the memtable.
C4_FailedAppendNotApplied ==
  [][\A t \in Threads :
       /\ AppendStep(t) => memtable' = memtable
       /\ (pc[t] = "wal" /\ fails' # fails) =>
            /\ pc'[t] = "idle"
            /\ res'[t] = WalErr([tag |-> "Io", kind |-> "Other"])
            /\ walLog' = walLog
            /\ memtable' = memtable
       /\ (pc[t] # "mem" /\ pc'[t] = "mem") => (pc[t] = "wal" /\ fails' = fails)
    ]_vars

\* a put or delete has failed with the WAL error and left no trace in the map
C4_Witness ==
  \E t \in Threads :
    /\ pc[t] = "idle"
    /\ call[t].op = "put"
    /\ res[t] = WalErr([tag |-> "Io", kind |-> "Other"])
    /\ call[t].key \notin DOMAIN memtable
    /\ walLock = 0

\* the bytes handed to the log so far: written, buffered or still to write
Handed == file \o buf \o Concat(pending)

\* C5: delete(key) returns true exactly when the key was in the memtable at
\* the removal, false otherwise (the memtable is then unchanged); and every
\* delete hands exactly one Delete record to the log, present key or not,
\* which is wholly in the file when the delete returns Ok.
C5_DeleteResultAndRecord ==
  [][\A t \in Threads :
       /\ (pc[t] = "idle" /\ pc'[t] = "wal" /\ call'[t].op = "delete") =>
            Handed' = Handed \o Encode(Delete(call'[t].key))
       /\ (pc[t] = "wal" /\ pc'[t] = "mem") => (buf' = << >> /\ pending' = << >>)
       /\ (ReturnsOk(t) /\ call[t].op = "delete") =>
            /\ res'[t].val = (call[t].key \in DOMAIN memtable)
            /\ call[t].key \notin DOMAIN memtable'
            /\ (call[t].key \notin DOMAIN memtable => memtable' = memtable)
            /\ \A k \in DOMAIN memtable' : memtable'[k] = memtable[k]
            /\ DOMAIN memtable' = DOMAIN memtable \ {call[t].key}
       /\ (call'[t].op = "delete" /\ res'[t].tag = "Ok" /\ res[t].tag # "Ok") =>
            pc[t] = "mem"
    ]_vars

\* a delete of an absent key has returned false and its record is in the file
C5_Witness ==
  \E t \in Threads :
    /\ pc[t] = "idle"
    /\ call[t].op = "delete"
    /\ res[t] = OkResult(FALSE)
    /\ file = Encode(Delete(call[t].key))
    /\ memtable = EmptyMap

\* the records handed to append so far, in order
Records(log) == [i \in 1..Len(log) |-> log[i].record]

\* what a map that was fed records in order holds for key k: the value of
\* the last record for k if that is a Put, nothing otherwise
LastFor(records, k) ==
  LET idx == {i \in 1..Len(records) : records[i].key = k} IN
    IF idx = {} THEN None
    ELSE LET m == CHOOSE i \in idx : \A j \in idx : j <= i IN
           IF records[m].kind = "Put" THEN Some(records[m].value) ELSE None

\* the reference map of a single caller: the last acknowledged mutation of
\* key k among the first n calls
RefGetUpTo(k, n) ==
  LET idx == {i \in acked : i <= n /\ walLog[i].record.key = k} IN
    IF idx = {} THEN None
    ELSE LET m == CHOOSE i \in idx : \A j \in idx : j <= i IN
           IF walLog[m].record.kind = "Put" THEN Some(walLog[m].record.value)
           ELSE None

RefGet(k) == RefGetUpTo(k, Len(walLog))

\* only caller 1 has ever called the engine
SingleCaller ==
  /\ call[2] = NoCall
  /\ \A i \in 1..Len(walLog) : walLog[i].t = 1

\* C6: for a single caller on a freshly opened engine, put, delete, get, len
\* and is_empty answer as an in-memory map from key to value would: get the
\* last value put and not deleted since, delete whether the key was there,
\* len the number of keys held, is_empty whether there is none.
C6_MatchesReferenceMap ==
  (status = "open" /\ crashes = 0 /\ SingleCaller /\ pc[1] = "idle") =>
    /\ DOMAIN memtable \subseteq Keys
    /\ \A k \in Keys : lookup(memtable, k) = RefGet(k)
    /\ CASE call[1].op = "get" -> res[1] = OkResult(RefGet(call[1].key))
         [] call[1].op = "len" ->
              res[1] = OkResult(Cardinality({k \in Keys : RefGet(k) # None}))
         [] call[1].op = "is_empty" ->
              res[1] = OkResult(\A k \in Keys : RefGet(k) = None)
         [] call[1].op = "put" ->
              res[1].tag = "Ok" => res[1] = OkResult(Unit)
         [] call[1].op = "delete" ->
              res[1].tag = "Ok" =>
                res[1] = OkResult(RefGetUpTo(call[1].key, Len(walLog) - 1) # None)
         [] OTHER -> TRUE

\* a single caller put a key, deleted it, and get then found nothing
C6_Witness ==
  /\ status = "open"
  /\ crashes = 0
  /\ fails = 0
  /\ SingleCaller
  /\ pc[1] = "idle"
  /\ acked = {1, 2}
  /\ walLog[1].record.kind = "Put"
  /\ walLog[2].record = Delete(walLog[1].record.key)
  /\ call[1] = GetCall(walLog[1].record.key)
  /\ res[1] = OkResult(None)

\* the keys of a sequence of records
KeysOf(records) == {records[i].key : i \in 1..Len(records)}

\* C7: Engine::open returns an engine whose memtable is the fold of the
\* records recover reads from the file, in file order: a key maps to the
\* value of its last record if that is a Put and is absent if it is a Delete
\* (a Delete of an absent key changes nothing).
C7_OpenIsFoldOfLog ==
  [][(status = "closed" /\ status' = "open") =>
       /\ opened' = recover(exists, file)
       /\ DOMAIN memtable' \subseteq KeysOf(opened'.records)
       /\ \A k \in KeysOf(opened'.records) \cup Keys :
            lookup(memtable', k) = LastFor(opened'.records, k)
    ]_vars

\* an engine was opened over a log of a Put, a Delete of another (absent) key
\* and holds just the Put
C7_Witness ==
  /\ status = "open"
  /\ crashes > 0
  /\ Len(opened.records) = 2
  /\ opened.records[1].kind = "Put"
  /\ opened.records[2].kind = "Delete"
  /\ opened.records[2].key # opened.records[1].key
  /\ memtable = insert(EmptyMap, opened.records[1].key, opened.records[1].value)

\* C8: the records appended through append (all writes succeeding) are what
\* recover reads back from the file, in order; a Delete is stored with value
\* length 0; a missing file recovers to the empty sequence, not an error.
C8_RoundTrip ==
  /\ ~exists => recover(exists, file) = Ok(<< >>)
  /\ (status = "open" /\ crashes = 0 /\ fails = 0 /\ walLock = 0) =>
       recover(exists, file) = Ok(Records(walLog))
  /\ \A i \in 1..Len(walLog) :
       LET r == walLog[i].record IN
         r.kind = "Delete" =>
           /\ Len(Encode(r)) = 21 + Len(r.key)
           /\ SubSeq(Encode(r), 14, 21) = << 0, 0, 0, 0, 0, 0, 0, 0 >>

\* a Put with a value and a Delete were appended and the file holds both
C8_Witness ==
  /\ status = "open"
  /\ crashes = 0
  /\ fails = 0
  /\ walLock = 0
  /\ Len(walLog) = 2
  /\ walLog[1].record.kind = "Put"
  /\ walLog[1].record.value # << >>
  /\ walLog[2].record.kind = "Delete"
  /\ Len(file) = 23 + 22

\* the file is the encoding of the records handed to append, cut somewhere
FileIsCutLog ==
  LET full == EncodeAll(Records(walLog)) IN
    Len(file) <= Len(full) /\ file = Take(full, Len(file))

\* the lengths at which a cut of the log falls between two records
RecordEnds ==
  {Len(EncodeAll(Take(Records(walLog), i))) : i \in 0..Len(walLog)}

\* C9: when the file ends inside a record, anywhere after its op byte,
\* recovery (and so Engine::open) fails with the I/O error; only a file
\* that ends where the next op byte would start is a clean end of the log.
C9_TornRecordIsIoError ==
  [][(/\ status = "closed"
      /\ opened = NoResult
      /\ opened' # NoResult
      /\ crashes > 0
      /\ fails = 0
      /\ FileIsCutLog) =>
       /\ Len(file) \in RecordEnds =>
            (opened'.tag = "Ok" /\ EncodeAll(opened'.records) = file)
       /\ Len(file) \notin RecordEnds => opened' = IoError
    ]_vars

\* a crash cut the second record of the log and open failed with the I/O error
C9_Witness ==
  /\ status = "closed"
  /\ crashes > 0
  /\ fails = 0
  /\ Len(walLog) = 2
  /\ Len(file) > Len(Encode(walLog[1].record))
  /\ Len(file) < Len(EncodeAll(Records(walLog)))
  /\ opened = IoError

\* the log as it was written, and the positions where the file differs from it
Original == EncodeAll(Records(walLog))
Diff == LET original == Original IN {p \in 1..Len(file) : file[p] # original[p]}

\* C10: when exactly one byte of the file was altered and it is a key or
\* value byte of a record, recovery fails with ChecksumMismatch carrying the
\* stored checksum and the checksum recomputed over the bytes read, which
\* differ; this also when the altered key is not valid UTF-8.
C10_AlteredByteIsChecksumMismatch ==
  (opened # NoResult /\ Cardinality(Diff) = 1) =>
    LET p == CHOOSE q \in Diff : TRUE
        records == Records(walLog)
        original == Original
    IN \A i \in 1..Len(records) :
         LET o == Len(EncodeAll(Take(records, i - 1)))
             n == Len(Encode(records[i]))
         IN (p > o + 21 /\ p <= o + n) =>
              LET stored == SubSeq(file, o + 2, o + 5)
                  recomputed == Crc32(<<file[o + 1]>> \o SubSeq(file, o + 6, o + n))
              IN /\ opened = ChecksumMismatch(stored, recomputed)
                 /\ stored # recomputed
                 /\ stored = SubSeq(original, o + 2, o + 5)

\* the key byte of the first record was altered into one that is not UTF-8
\* and open failed with the checksum mismatch
C10_Witness ==
  /\ Len(walLog) > 0
  /\ Diff = {22}
  /\ ~ValidUtf8(SubSeq(file, 22, 22))
  /\ opened.tag = "ChecksumMismatch"
  /\ opened.expected = SubSeq(Original, 2, 5)

\* the log on disk holds a bad record: one byte of it was altered, or a
\* record of it has a key that is not UTF-8
HasBadRecord ==
  \/ Cardinality(Diff) = 1
  \/ \E i \in 1..Len(walLog) : ~ValidUtf8(walLog[i].record.key)

\* C11: Engine::open is all-or-nothing: when the log holds a bad record
\* (unknown op byte, short read, checksum mismatch, key not UTF-8), wherever
\* it is, open returns the error and there is no engine and no memtable; an
\* engine that exists was built from records that account for every byte of
\* the file, none skipped.
C11_OpenAllOrNothing ==
  /\ (opened # NoResult /\ opened.tag # "Ok") =>
       (status = "closed" /\ memtable = EmptyMap)
  /\ (opened # NoResult /\ HasBadRecord) =>
       opened.tag \in {"Io", "ChecksumMismatch", "UnknownOperation", "InvalidKey"}
  /\ status = "open" =>
       /\ opened.tag = "Ok"
       /\ EncodeAll(opened.records) = file
       /\ \A k \in KeysOf(opened.records) \cup Keys :
            lookup(memtable, k) = LastFor(opened.records, k)

\* the first position at which the file differs from the log as written
FirstDiff == CHOOSE p \in Diff : \A q \in Diff : p <= q

\* C12: a byte other than 0x01 and 0x02 where a record's op byte stands makes
\* recovery fail with UnknownOperation carrying that byte, whatever the rest
\* of the record holds (its checksum no longer matches either: the op byte
\* is judged before anything else of the record is read).
C12_UnknownOpByte ==
  (opened # NoResult /\ Diff # {}) =>
    LET p == FirstDiff
        records == Records(walLog)
    IN \A i \in 1..Len(records) :
         (/\ p = Len(EncodeAll(Take(records, i - 1))) + 1
          /\ file[p] # 1
          /\ file[p] # 2) =>
           /\ opened = UnknownOperation(file[p])
           /\ status = "closed"

\* the op byte of the second record was altered to 0xC8 and open failed
\* with the unknown-operation error carrying 0xC8
C12_Witness ==
  /\ Len(walLog) = 2
  /\ Diff = {Len(Encode(walLog[1].record)) + 1}
  /\ opened = UnknownOperation(200)

\* C13: once the WAL mutex or the memtable lock is poisoned, every put,
\* delete, get, len and is_empty that is called afterwards returns
\* LockPoisoned at once, and changes neither the memtable nor the WAL
\* (file and buffer).
C13_PoisonedFailsEverything ==
  [][((poisoned.wal \/ poisoned.mem) /\ (ops' # ops \/ reads' # reads)) =>
       /\ memtable' = memtable
       /\ file' = file
       /\ buf' = buf
       /\ pending' = pending
       /\ pc' = pc
       /\ \A t \in Threads : call'[t] # call[t] => res'[t] = LockPoisoned
    ]_vars

\* what a read call c returns on the memtable as it is
ReadResult(c) ==
  CASE c.op = "get" -> OkResult(lookup(memtable, c.key))
    [] c.op = "len" -> OkResult(Cardinality(DOMAIN memtable))
    [] c.op = "is_empty" -> OkResult(DOMAIN memtable = {})

\* C14: get, len and is_empty are read-only: a read leaves the memtable, the
\* WAL file and the WAL buffer as they are and answers from the memtable
\* alone (get: the value held for the key, or not-found), also while the
\* file already holds a record that the memtable does not show yet.
C14_ReadsAreReadOnly ==
  [][reads' # reads =>
       /\ memtable' = memtable
       /\ file' = file
       /\ exists' = exists
       /\ buf' = buf
       /\ pending' = pending
       /\ walLock' = walLock
       /\ pc' = pc
       /\ \A t \in Threads :
            call'[t] # call[t] =>
              /\ call'[t] \in ReadCalls
              /\ res'[t] = ReadResult(call'[t])
    ]_vars

\* caller 1's put of a key has its record in the file and has not reached
\* the memtable; caller 2, whose own earlier put came after that record,
\* then asked for the key and got not-found
C14_Witness ==
  /\ crashes = 0
  /\ fails = 0
  /\ Len(walLog) = 2
  /\ walLog[1].t = 1
  /\ walLog[2].t = 2
  /\ 2 \in acked
  /\ pc[1] = "mem"
  /\ call[1].op = "put"
  /\ walLog[2].record.key # call[1].key
  /\ file = EncodeAll(Records(walLog))
  /\ call[2] = GetCall(call[1].key)
  /\ res[2] = OkResult(None)

\* C15: a key put with an empty value is present: the put leaves it in the
\* memtable, get finds it with an empty value (a reply that differs from
\* not-found), len counts it, and an engine opened over a log whose last
\* record for the key is such a Put holds it too.
C15_EmptyValueIsPresent ==
  [][/\ \A t \in Threads :
          (ReturnsOk(t) /\ call[t].op = "put" /\ call[t].value = << >>) =>
            /\ call[t].key \in DOMAIN memtable'
            /\ lookup(memtable', call[t].key) = Some(<< >>)
     /\ \A t \in Threads :
          (/\ reads' # reads
           /\ call'[t] # call[t]
           /\ call'[t].op = "get"
           /\ call'[t].key \in DOMAIN memtable
           /\ memtable[call'[t].key] = << >>) =>
            /\ res'[t] = OkResult(Some(<< >>))
            /\ GetResponse(res'[t].val) = [value |-> << >>, found |-> TRUE]
            /\ GetResponse(res'[t].val) # GetResponse(None)
     /\ \A t \in Threads :
          (reads' # reads /\ call'[t] # call[t] /\ call'[t].op = "len") =>
            res'[t].val = Cardinality({k \in Keys : lookup(memtable, k) # None})
     /\ (status = "closed" /\ status' = "open") =>
          \A k \in Keys :
            LastFor(opened'.records, k) = Some(<< >>) =>
              /\ k \in DOMAIN memtable'
              /\ lookup(memtable', k) = Some(<< >>)
    ]_vars

\* an engine reopened over a log that holds one Put with an empty value was
\* asked for the key and found it, with an empty value
C15_Witness ==
  /\ status = "open"
  /\ crashes > 0
  /\ Len(opened.records) = 1
  /\ opened.records[1].kind = "Put"
  /\ opened.records[1].value = << >>
  /\ \E t \in Threads :
       /\ call[t] = GetCall(opened.records[1].key)
       /\ res[t] = OkResult(Some(<< >>))

\* bytes is made of one piece per encoding, in order, each piece the first
\* bytes (none, some or all) of its encoding
RECURSIVE PiecesInOrder(_, _)
PiecesInOrder(bytes, encodings) ==
  IF encodings = << >> THEN bytes = << >>
  ELSE LET e == Head(encodings)
           most == IF Len(e) < Len(bytes) THEN Len(e) ELSE Len(bytes)
       IN \E k \in 0..most :
            /\ Take(bytes, k) = Take(e, k)
            /\ PiecesInOrder(Drop(bytes, k), Tail(encodings))

\* C16: at most one append is in flight at any time, and it is the one of
\* the holder of the WAL lock; the bytes written and buffered are one
\* contiguous piece per record, in the order in which the callers took the
\* WAL lock: the bytes of two records are never interleaved.
C16_OneAppendInFlight ==
  /\ Cardinality({t \in Threads : pc[t] = "wal"}) <= 1
  /\ \A t \in Threads : pc[t] = "wal" <=> walLock = t
  /\ LET encodings == [i \in 1..Len(walLog) |-> Encode(walLog[i].record)]
     IN PiecesInOrder(file \o buf, encodings)

\* the first caller's record is in the file whole, the second caller holds
\* the WAL lock and its record is partly in the file, partly in the buffer
C16_Witness ==
  /\ crashes = 0
  /\ fails = 0
  /\ Len(walLog) = 2
  /\ walLog[1].t # walLog[2].t
  /\ pc[walLog[1].t] = "mem"
  /\ pc[walLog[2].t] = "wal"
  /\ walLock = walLog[2].t
  /\ Len(file) > Len(Encode(walLog[1].record))
  /\ buf # << >>

\* the byte sequence e stands somewhere in bytes, whole
Contains(bytes, e) ==
  \E o \in 0..(Len(bytes) - Len(e)) : SubSeq(bytes, o + 1, o + Len(e)) = e

\* every pair the memtable of an open engine shows has its Put record in
\* the file, whole
VisibleIsDurable ==
  status = "open" =>
    \A k \in DOMAIN memtable : Contains(file, Encode(Put(k, memtable[k])))

\* C17: visible implies durable: in every state of an open engine each
\* key-to-value pair of the memtable has a fully flushed Put record with
\* that key and value in the WAL file, and a step of the open engine that
\* takes a key out of the memtable finds the key's Delete record fully
\* flushed in the file.
C17_VisibleImpliesDurable ==
  /\ []VisibleIsDurable
  /\ [][(status = "open" /\ status' = "open") =>
          \A k \in (DOMAIN memtable) \ (DOMAIN memtable') :
            Contains(file, Encode(Delete(k)))
       ]_vars

\* a key was put and then deleted: it is gone from the memtable and both
\* records are in the file
C17_Witness ==
  /\ status = "open"
  /\ crashes = 0
  /\ acked = {1, 2}
  /\ walLog[1].record.kind = "Put"
  /\ walLog[2].record = Delete(walLog[1].record.key)
  /\ res[walLog[2].t] = OkResult(TRUE)
  /\ memtable = EmptyMap
  /\ Contains(file, Encode(walLog[2].record))

\* bytes is a sequence of complete records of the set rs followed by at
\* most one incomplete record, which stands at the very end
RECURSIVE RecordsThenTail(_, _)
RecordsThenTail(bytes, rs) ==
  \/ bytes = << >>
  \/ \E r \in rs :
       LET e == Encode(r) IN
         IF Len(e) <= Len(bytes)
         THEN Take(bytes, Len(e)) = e /\ RecordsThenTail(Drop(bytes, Len(e)), rs)
         ELSE Take(e, Len(bytes)) = bytes

\* C18: in every state the WAL file is a sequence of complete,
\* checksum-consistent records followed by at most one partial record at
\* the very end: no incomplete record is followed by further record bytes,
\* also after a failed append that later appends follow.
C18_WalIsRecordsThenTail ==
  RecordsThenTail(file, {walLog[i].record : i \in 1..Len(walLog)})

\* C19: the WAL file is append-only: across every step (every append,
\* every Engine::open, also one that reopens over an existing log) the
\* content before the step is a byte prefix of the content after it, and
\* a step that opens the engine, recovery included, leaves the file as it
\* was.
C19_AppendOnly ==
  [][/\ Len(file) <= Len(file')
     /\ Take(file', Len(file)) = file
     /\ (opened' # opened /\ opened' # NoResult) => file' = file
    ]_vars

\* the engine was reopened over a log that holds a record and a further
\* record was appended behind it
C19_Witness ==
  /\ status = "open"
  /\ crashes = 1
  /\ opened.tag = "Ok"
  /\ Len(opened.records) = 1
  /\ Len(walLog) = 2
  /\ 2 \in acked
  /\ file = EncodeAll(opened.records) \o Encode(walLog[2].record)

\* C20: a put or delete that returned an error to its caller is never
\* reflected later: while the caller holds the error of its call and no
\* other call wrote the same record, the record of the failed call is not
\* in the WAL file, so no later append has flushed it and no reopening can
\* show it.
C20_FailedCallLeavesNoRecord ==
  \A t \in Threads :
    (res[t].tag = "Err" /\ call[t].op \in {"put", "delete"}) =>
      LET r == RecordOf(call[t]) IN
        Cardinality({i \in 1..Len(walLog) : walLog[i].record = r}) = 1
          => ~Contains(file, Encode(r))

\* no caller holds the WAL lock and a memtable guard at the same time
NoBothLocks ==
  \A t \in Threads : ~(HoldsWal(t) /\ (HoldsMemWrite(t) \/ HoldsMemRead(t)))

\* caller t is inside a call / has the answer of its call
InCall(t) == pc[t] # "idle"
Returned(t) == pc[t] = "idle" /\ res[t] # NoResult

\* C21: no caller ever holds the WAL lock and the memtable lock at the same
\* time, and under fair scheduling every put, delete, get, len and is_empty
\* call of any of the concurrent callers eventually returns.
C21_NoDeadlock ==
  /\ []NoBothLocks
  /\ \A t \in Threads : InCall(t) ~> Returned(t)

\* one caller holds the memtable write guard while the other holds the WAL
\* mutex
C21_Witness ==
  \E t, u \in Threads :
    /\ t # u
    /\ HoldsMemWrite(t)
    /\ HoldsWal(u)
    /\ pc[u] = "wal"

====
